---- MODULE Spec2Model ----
(***************************************************************************)
(* pyohschooldata: the rpy2 adapter around the ohschooldata R package.     *)
(* State: the module global _pkg, the foreign runtime's load counters and  *)
(* one frame per thread executing a public operation.  Every statement of  *)
(* core.py that reads or writes shared state is one step of a frame.       *)
(***************************************************************************)
EXTENDS Integers, Sequences, FiniteSets, TLC

VARIABLES
    pkg,          \* core._pkg: None or the handle importr returned
    importrCalls, \* how many times importr("ohschooldata") was entered
    loadsOk,      \* how many of those returned a package
    calls,        \* public operations started so far
    stubbed,      \* TRUE when callers and collaborator are a fixed test harness
    th            \* thread -> frame of the operation it executes

vars == <<pkg, importrCalls, loadsOk, calls, stubbed, th>>

\* ------------------------------------------------------------------ bounds
MaxCalls == 3     \* operations started in one behaviour
MaxYear  == 1     \* years are 0..MaxYear (doubles in halves around them)
MaxLen   == 3     \* longest names list / mapping of a foreign result
MaxRows  == 1     \* rows of a table

\* ------------------------------------------------------- python / R values
None == 0         \* _pkg = None; handles are 1, 2, ...

PyInt(n)    == [t |-> "int",   n |-> n]   \* a Python int / R integer n
RDouble(h)  == [t |-> "float", n |-> h]   \* an R double worth h/2

\* int(x): identity on ints, truncation toward zero on doubles
\* faulty variant: the value is returned without int()
py_int_raw(x) == x
py_int(x) ==
    IF x.t = "int" THEN x
    ELSE IF x.n >= 0 THEN PyInt(x.n \div 2) ELSE PyInt(0 - ((0 - x.n) \div 2))

YearInts   == 0..MaxYear
Numbers    == {PyInt(n) : n \in YearInts}
                 \cup {RDouble(h) : h \in (0 - 1)..(2 * MaxYear + 1)}
\* the ways the foreign runtime carries the integer n: R integer or R double
Carry(n)   == {PyInt(n), RDouble(2 * n)}
Decoy      == PyInt(0 - 1)                \* value of an entry that is not a year bound

Keys       == {"min_year", "max_year", "other"}
SeqsUpTo(S, n) == UNION {[1..k -> S] : k \in 0..n}
Layouts    == SeqsUpTo(Keys, MaxLen)

\* list.index(key): position of the first match, 0 for ValueError (1-based here)
names_index(names, key) ==
    IF \E i \in 1..Len(names) : names[i] = key
    THEN CHOOSE i \in 1..Len(names) :
             names[i] = key /\ \A j \in 1..(i - 1) : names[j] # key
    ELSE 0

\* ---------------------------------------------------------- foreign results
\* A result of pkg.get_available_years():
\*   cls      "dict" (a Python dict) or "robj" (an rpy2 object)
\*   names    dict: the keys; robj: list(r.names)
\*   vals     dict: the values; robj: the elements, r[i]
\*   namesAttr "list" (names present), "NULL" (names is robjects.NULL),
\*             "absent" (no names attribute)
\*   hasRx2   the object has an rx2 method
\*   rxKeys, rxVecs  what rx2(key) finds: rxVecs[i] is the vector under rxKeys[i]
Entries(layout, vmin, vmax) ==
    [i \in 1..Len(layout) |->
        IF layout[i] = "min_year" /\ names_index(layout, "min_year") = i THEN vmin
        ELSE IF layout[i] = "max_year" /\ names_index(layout, "max_year") = i THEN vmax
        ELSE Decoy]

Distinct(s) == \A i, j \in 1..Len(s) : s[i] = s[j] => i = j

DictResult(layout, vmin, vmax) ==
    [cls |-> "dict", names |-> layout, vals |-> Entries(layout, vmin, vmax),
     namesAttr |-> "absent", hasRx2 |-> FALSE, rxKeys |-> <<>>, rxVecs |-> <<>>]

\* a named R vector: names list, positional elements; rx2 finds the same elements
NamedResult(layout, vmin, vmax) ==
    [cls |-> "robj", names |-> layout, vals |-> Entries(layout, vmin, vmax),
     namesAttr |-> "list", hasRx2 |-> TRUE, rxKeys |-> layout,
     rxVecs |-> [i \in 1..Len(layout) |-> <<Entries(layout, vmin, vmax)[i]>>]]

\* an object without usable names; rx2(key) is a vector of `width` elements whose
\* first element is the value
Vec(v, width) == [i \in 1..width |-> IF i = 1 THEN v ELSE Decoy]
Rx2Result(attr, rx2, layout, vmin, vmax, width) ==
    [cls |-> "robj", names |-> <<>>, vals |-> <<>>,
     namesAttr |-> attr, hasRx2 |-> rx2, rxKeys |-> layout,
     rxVecs |-> [i \in 1..Len(layout) |-> Vec(Entries(layout, vmin, vmax)[i], width)]]

\* what the collaborator answers: the object r and the bounds it holds
Answer(r, vmin, vmax) == [r |-> r, held |-> <<vmin, vmax>>]
DictAnswers ==
    {Answer(DictResult(l, a, b), a, b) :
        l \in {x \in Layouts : Distinct(x)}, a \in Numbers, b \in Numbers}
NamedAnswers ==
    {Answer(NamedResult(l, a, b), a, b) : l \in Layouts, a \in Numbers, b \in Numbers}
Rx2Answers ==
    UNION {{Answer(Rx2Result(attr, rx2, l, a, b, w), a, b) :
                attr \in {"NULL", "absent"}, rx2 \in BOOLEAN, w \in 0..2,
                l \in {x \in Layouts : Distinct(x) /\ Len(x) <= 2}}
            : a \in Numbers, b \in Numbers}

YearAnswers == DictAnswers \cup NamedAnswers \cup Rx2Answers

NoYearResult ==
    [cls |-> "none", names |-> <<>>, vals |-> <<>>, namesAttr |-> "absent",
     hasRx2 |-> FALSE, rxKeys |-> <<>>, rxVecs |-> <<>>]

\* the results of a stubbed collaborator: min = 0, max = MaxYear in each shape
StubYearAnswers ==
    {Answer(DictResult(<<"min_year", "max_year">>, PyInt(0), PyInt(MaxYear)),
            PyInt(0), PyInt(MaxYear)),
     Answer(NamedResult(<<"max_year", "min_year">>, RDouble(0), RDouble(2 * MaxYear)),
            RDouble(0), RDouble(2 * MaxYear)),
     Answer(Rx2Result("NULL", TRUE, <<"min_year", "max_year">>, PyInt(0), PyInt(MaxYear), 1),
            PyInt(0), PyInt(MaxYear))}

\* ------------------------------------------------------------------ tables
\* cls "DataFrame" is a pandas.DataFrame, "RDataFrame" an R data.frame
Tables     == [cls : {"DataFrame", "RDataFrame"}, rows : 0..MaxRows, long : BOOLEAN]
DataFrames == {x \in Tables : x.cls = "DataFrame"}
NoTable    == [cls |-> "none", rows |-> 0, long |-> FALSE]

\* faulty variant: the isinstance test never passes
isinstance_DataFrame_never(x) == FALSE
isinstance_DataFrame(x) == x.cls = "DataFrame"
rpy2py(x) == [x EXCEPT !.cls = "DataFrame"]
py2rpy(x) == [x EXCEPT !.cls = "RDataFrame"]


\* robjects.IntVector(end_years): an R integer vector of the same items
IntVector(years) == [cls |-> "IntVector", items |-> years]
NoVector == [cls |-> "none", items |-> <<>>]

\* --------------------------------------------- get_available_years, decoded
YearDict(a, b) == [min_year |-> py_int(a), max_year |-> py_int(b)]
NoDict == [min_year |-> Decoy, max_year |-> Decoy]
Raised(e, tried) == [status |-> "decode_error", err |-> e, ret |-> NoDict, tried |-> tried]
Returned(d, tried) == [status |-> "ok", err |-> "", ret |-> d, tried |-> tried]

\* lines 128-132: the result is a dict, read by key
decode_mapping(r, tried) ==
    LET mi == names_index(r.names, "min_year")
        ma == names_index(r.names, "max_year")
    IN  IF mi = 0 \/ ma = 0 THEN Raised("KeyError", tried)
        ELSE Returned(YearDict(r.vals[mi], r.vals[ma]), tried)

\* lines 139-145: names.index(...) then positional indexing
\* faulty variant: the two indices exchanged
decode_names_swapped(r, names, tried) ==
    LET mi == names_index(names, "min_year")
        ma == names_index(names, "max_year")
    IN  IF mi = 0 \/ ma = 0 THEN Raised("ValueError", tried)
        ELSE Returned(YearDict(r.vals[ma], r.vals[mi]), tried)
decode_names(r, names, tried) ==
    LET mi == names_index(names, "min_year")
        ma == names_index(names, "max_year")
    IN  IF mi = 0 \/ ma = 0 THEN Raised("ValueError", tried)
        ELSE Returned(YearDict(r.vals[mi], r.vals[ma]), tried)

\* lines 148-151: r.rx2(key)[0]
decode_rx2(r, tried) ==
    LET mi == names_index(r.rxKeys, "min_year")
        ma == names_index(r.rxKeys, "max_year")
    IN  IF ~r.hasRx2 THEN Raised("AttributeError", tried)
        ELSE IF mi = 0 \/ ma = 0 THEN Raised("TypeError", tried)
        ELSE IF Len(r.rxVecs[mi]) = 0 \/ Len(r.rxVecs[ma]) = 0
             THEN Raised("IndexError", tried)
        ELSE Returned(YearDict(r.rxVecs[mi][1], r.rxVecs[ma][1]), tried)

\* lines 135-137: names = list(r.names) when the attribute exists and is not NULL
usable_names(r) == IF r.namesAttr = "list" THEN r.names ELSE <<>>

\* lines 127-151, the whole dispatch
\* faulty variant: each strategy wrapped in try/except, falling through on failure
get_years_decode_exhaustive(r) ==
    LET a == decode_mapping(r, <<"mapping">>)
        b == decode_names(r, usable_names(r), <<"mapping", "names">>)
        c == decode_rx2(r, <<"mapping", "names", "rx2">>)
    IN  IF r.cls = "dict" /\ a.status = "ok" THEN a
        ELSE IF usable_names(r) # <<>> /\ b.status = "ok" THEN b
        ELSE c
get_years_decode(r) ==
    IF r.cls = "dict" THEN decode_mapping(r, <<"mapping">>)
    ELSE IF usable_names(r) # <<>>
         THEN decode_names(r, usable_names(r), <<"mapping", "names">>)
    ELSE decode_rx2(r, <<"mapping", "names", "rx2">>)

\* ------------------------------------------------------------------ frames
Ops == {"fetch_enr", "fetch_enr_multi", "tidy_enr", "get_available_years"}
\* __init__.py: the names the package exports and its version
Exported == {"fetch_enr", "fetch_enr_multi", "tidy_enr", "get_available_years"}
Version  == "0.1.0"

\* the attribute of the package handle each operation calls
\* faulty variant: the multi-year fetch routed to the single-year function
ForeignName_single(op) == IF op = "fetch_enr_multi" THEN "fetch_enr" ELSE op
ForeignName(op) == op

IdleFrame ==
    [pc |-> "idle", op |-> "none", end_year |-> 0, end_years |-> <<>>, df |-> NoTable,
     df0 |-> NoTable,
     loaded |-> None, lpkg |-> None, pkg0 |-> None,
     r_years |-> NoVector, r_df |-> NoTable,
     r_tab |-> NoTable, r_yrs |-> NoYearResult, held |-> <<Decoy, Decoy>>,
     ret_tab |-> NoTable, ret_yrs |-> NoDict,
     status |-> "none", err |-> "", invoked |-> <<>>,
     nimport |-> 0, nconv |-> 0, tried |-> <<>>]

Entered(op, p) == [IdleFrame EXCEPT !.pc = "check", !.op = op, !.pkg0 = p,
                                    !.status = "running"]

\* what the collaborator can answer, and what callers pass, with and without
\* the fixed harness
StubTable == [cls |-> "DataFrame", rows |-> MaxRows, long |-> FALSE]
YearAnswersOf(s)  == IF s THEN StubYearAnswers ELSE YearAnswers
TableResultsOf(s) == IF s THEN {StubTable, py2rpy(StubTable)} ELSE Tables
EndYearsOf(s)     == IF s THEN {MaxYear} ELSE YearInts
EndYearListsOf(s) == IF s THEN {<<0, MaxYear>>} ELSE SeqsUpTo(YearInts, 2)
InputTablesOf(s)  == IF s THEN {StubTable} ELSE DataFrames

\* --------------------------------------------------- module import (line 12)
\* faulty variant: the package loaded at import time
ModuleGlobals_eager == [pkg |-> 1, importrCalls |-> 1, loadsOk |-> 1]
ModuleGlobals == [pkg |-> None, importrCalls |-> 0, loadsOk |-> 0]

InitWith(threads, stub) ==
    /\ pkg = ModuleGlobals.pkg
    /\ importrCalls = ModuleGlobals.importrCalls
    /\ loadsOk = ModuleGlobals.loadsOk
    /\ calls = 0
    /\ stubbed = stub
    /\ th = [t \in threads |-> IdleFrame]

Init   == InitWith({"main"}, FALSE)
InitMT == InitWith({"t1", "t2"}, TRUE)

Threads == DOMAIN th

\* ------------------------------------------------ the four public operations
Enter(t, f) ==
    /\ th[t].pc = "idle"
    /\ calls < MaxCalls
    /\ calls' = calls + 1
    /\ th' = [th EXCEPT ![t] = f]
    /\ UNCHANGED <<pkg, importrCalls, loadsOk, stubbed>>

Call_fetch_enr(t) ==
    \E y \in EndYearsOf(stubbed) : Enter(t, [Entered("fetch_enr", pkg) EXCEPT !.end_year = y])
Call_fetch_enr_multi(t) ==
    \E ys \in EndYearListsOf(stubbed) :
        Enter(t, [Entered("fetch_enr_multi", pkg) EXCEPT !.end_years = ys])
Call_tidy_enr(t) ==
    \E d \in InputTablesOf(stubbed) : Enter(t, [Entered("tidy_enr", pkg) EXCEPT !.df = d, !.df0 = d])
Call_get_available_years(t) ==
    Enter(t, Entered("get_available_years", pkg))

\* ------------------------------------------------------ _get_pkg, lines 15-20
\* faulty variant: no memoization, every call loads
PkgIsNone_always(p) == TRUE
PkgIsNone(p) == p = None

\* line 18: if _pkg is None
GetPkgCheck(t) ==
    /\ th[t].pc = "check"
    /\ th' = [th EXCEPT ![t].pc = IF PkgIsNone(pkg) THEN "importr" ELSE "return"]
    /\ UNCHANGED <<pkg, importrCalls, loadsOk, calls, stubbed>>

\* line 19, right-hand side: importr("ohschooldata") returns a new handle
ImportrOk(t) ==
    /\ th[t].pc = "importr"
    /\ importrCalls' = importrCalls + 1
    /\ loadsOk' = loadsOk + 1
    /\ th' = [th EXCEPT ![t].pc = "store", ![t].loaded = loadsOk + 1,
                        ![t].nimport = @ + 1]
    /\ UNCHANGED <<pkg, calls, stubbed>>

\* line 19: importr raises; the exception leaves _get_pkg and the operation
\* faulty variant: a failed load leaves a placeholder in _pkg
ImportrFails_sticky(t) ==
    /\ th[t].pc = "importr"
    /\ importrCalls' = importrCalls + 1
    /\ pkg' = importrCalls + 1
    /\ th' = [th EXCEPT ![t].pc = "idle", ![t].status = "load_error",
                        ![t].nimport = @ + 1]
    /\ UNCHANGED <<loadsOk, calls, stubbed>>
ImportrFails(t) ==
    /\ th[t].pc = "importr"
    /\ importrCalls' = importrCalls + 1
    /\ th' = [th EXCEPT ![t].pc = "idle", ![t].status = "load_error",
                        ![t].nimport = @ + 1]
    /\ UNCHANGED <<pkg, loadsOk, calls, stubbed>>

\* line 19, the assignment to the global
StorePkg(t) ==
    /\ th[t].pc = "store"
    /\ pkg' = th[t].loaded
    /\ th' = [th EXCEPT ![t].pc = "return"]
    /\ UNCHANGED <<importrCalls, loadsOk, calls, stubbed>>

\* line 20: return _pkg, bound to the operation's local pkg
GetPkgReturn(t) ==
    /\ th[t].pc = "return"
    /\ th' = [th EXCEPT ![t].lpkg = pkg,
                        ![t].pc = IF th[t].op \in {"fetch_enr_multi", "tidy_enr"}
                                  THEN "marshal" ELSE "invoke"]
    /\ UNCHANGED <<pkg, importrCalls, loadsOk, calls, stubbed>>

\* line 73 (IntVector) and line 102 (py2rpy): the argument in foreign form
\* faulty variant: the input table converted in place
Marshal_inplace(t) ==
    /\ th[t].pc = "marshal"
    /\ th' = [th EXCEPT ![t].pc = "invoke",
                        ![t].r_years = IF th[t].op = "fetch_enr_multi"
                                       THEN IntVector(th[t].end_years) ELSE @,
                        ![t].r_df = IF th[t].op = "tidy_enr" THEN py2rpy(th[t].df) ELSE @,
                        ![t].df = IF th[t].op = "tidy_enr" THEN py2rpy(th[t].df) ELSE @]
    /\ UNCHANGED <<pkg, importrCalls, loadsOk, calls, stubbed>>
Marshal(t) ==
    /\ th[t].pc = "marshal"
    /\ th' = [th EXCEPT ![t].pc = "invoke",
                        ![t].r_years = IF th[t].op = "fetch_enr_multi"
                                       THEN IntVector(th[t].end_years) ELSE @,
                        ![t].r_df = IF th[t].op = "tidy_enr" THEN py2rpy(th[t].df) ELSE @]
    /\ UNCHANGED <<pkg, importrCalls, loadsOk, calls, stubbed>>

\* lines 46, 74, 103, 125: the one call into the package
Invoked(f) == Append(f.invoked, [fn |-> ForeignName(f.op), handle |-> f.lpkg])

InvokeTable(t) ==
    /\ th[t].pc = "invoke"
    /\ th[t].op # "get_available_years"
    /\ \E r \in TableResultsOf(stubbed) :
         th' = [th EXCEPT ![t].pc = "convert", ![t].r_tab = r,
                          ![t].invoked = Invoked(th[t])]
    /\ UNCHANGED <<pkg, importrCalls, loadsOk, calls, stubbed>>

InvokeYears(t) ==
    /\ th[t].pc = "invoke"
    /\ th[t].op = "get_available_years"
    /\ \E a \in YearAnswersOf(stubbed) :
         th' = [th EXCEPT ![t].pc = "decode", ![t].r_yrs = a.r, ![t].held = a.held,
                          ![t].invoked = Invoked(th[t])]
    /\ UNCHANGED <<pkg, importrCalls, loadsOk, calls, stubbed>>

\* the foreign function raises; the exception leaves the operation
InvokeFails(t) ==
    /\ th[t].pc = "invoke"
    /\ th' = [th EXCEPT ![t].pc = "idle", ![t].status = "call_error",
                        ![t].invoked = Invoked(th[t])]
    /\ UNCHANGED <<pkg, importrCalls, loadsOk, calls, stubbed>>

\* lines 47-49, 75-77, 104-106
Convert(t) ==
    /\ th[t].pc = "convert"
    /\ th' = [th EXCEPT ![t].pc = "idle", ![t].status = "ok",
                        ![t].ret_tab = IF isinstance_DataFrame(th[t].r_tab)
                                       THEN th[t].r_tab ELSE rpy2py(th[t].r_tab),
                        ![t].nconv = IF isinstance_DataFrame(th[t].r_tab) THEN @ ELSE @ + 1]
    /\ UNCHANGED <<pkg, importrCalls, loadsOk, calls, stubbed>>

\* lines 127-151
Decode(t) ==
    /\ th[t].pc = "decode"
    /\ LET d == get_years_decode(th[t].r_yrs)
       IN  th' = [th EXCEPT ![t].pc = "idle", ![t].status = d.status, ![t].err = d.err,
                            ![t].ret_yrs = d.ret, ![t].tried = d.tried]
    /\ UNCHANGED <<pkg, importrCalls, loadsOk, calls, stubbed>>

Next ==
    \/ \E t \in Threads : Call_fetch_enr(t)
    \/ \E t \in Threads : Call_fetch_enr_multi(t)
    \/ \E t \in Threads : Call_tidy_enr(t)
    \/ \E t \in Threads : Call_get_available_years(t)
    \/ \E t \in Threads : GetPkgCheck(t)
    \/ \E t \in Threads : ImportrOk(t)
    \/ \E t \in Threads : ImportrFails(t)
    \/ \E t \in Threads : StorePkg(t)
    \/ \E t \in Threads : GetPkgReturn(t)
    \/ \E t \in Threads : Marshal(t)
    \/ \E t \in Threads : InvokeTable(t)
    \/ \E t \in Threads : InvokeYears(t)
    \/ \E t \in Threads : InvokeFails(t)
    \/ \E t \in Threads : Convert(t)
    \/ \E t \in Threads : Decode(t)

Spec   == Init /\ [][Next]_vars
SpecMT == InitMT /\ [][Next]_vars

\* ================================================================== claims
TableOps == {"fetch_enr", "fetch_enr_multi", "tidy_enr"}
AllThree == <<"mapping", "names", "rx2">>
Half(x)  == IF x.t = "int" THEN 2 * x.n ELSE x.n   \* the number x, in halves
Count(l, k) == Cardinality({i \in 1..Len(l) : l[i] = k})
\* the frame's foreign result is one of the three shapes of the contract, with
\* each bound present once: a mapping, a names list, or rx2 access only
WellShaped(r) ==
    LET l == IF r.cls = "dict" \/ r.namesAttr = "list" THEN r.names ELSE r.rxKeys
    IN  /\ Count(l, "min_year") = 1
        /\ Count(l, "max_year") = 1
        /\ (r.cls = "robj" /\ r.namesAttr # "list") =>
               (r.hasRx2 /\ \A i \in 1..Len(r.rxVecs) : Len(r.rxVecs[i]) >= 1)
ReturnedYears(t) == th[t].op = "get_available_years" /\ th[t].status = "ok"

\* C1 (as stated): importr is performed at most once over any sequence of calls,
\* and every foreign call uses the one handle.
C1_LoadPerformedAtMostOnce ==
    /\ importrCalls <= 1
    /\ \A t \in Threads : \A i \in 1..Len(th[t].invoked) : th[t].invoked[i].handle = pkg

\* C1 (amended): importr succeeds at most once; an operation that starts with the
\* handle set performs no load and leaves the handle as it is, and every foreign
\* call goes through that handle. Only a load that failed can be repeated.
C1_LoadSucceedsAtMostOnce ==
    /\ loadsOk <= 1
    /\ \A t \in Threads :
         /\ th[t].pkg0 # None => (th[t].nimport = 0 /\ pkg = th[t].pkg0)
         /\ \A i \in 1..Len(th[t].invoked) : th[t].invoked[i].handle = pkg
C1_Witness ==
    \E t \in Threads :
        /\ th[t].pkg0 # None
        /\ th[t].status = "ok"
        /\ calls >= 2
        /\ loadsOk = 1

\* C2: whichever of the three shapes carries the integers (mn, mx), as R integers
\* or as R doubles, get_available_years returns exactly {min_year: mn, max_year: mx}.
C2_ShapesAgree ==
    \A t \in Threads : \A mn, mx \in YearInts :
        ( /\ th[t].op = "get_available_years"
          /\ th[t].pc = "idle"
          /\ WellShaped(th[t].r_yrs)
          /\ th[t].held[1] \in Carry(mn)
          /\ th[t].held[2] \in Carry(mx) )
        => /\ th[t].status = "ok"
           /\ th[t].ret_yrs = [min_year |-> PyInt(mn), max_year |-> PyInt(mx)]
C2_Witness ==
    \E t \in Threads :
        /\ ReturnedYears(t)
        /\ th[t].r_yrs = NamedResult(<<"other", "max_year", "min_year">>,
                                     RDouble(0), RDouble(2 * MaxYear))
        /\ th[t].ret_yrs = [min_year |-> PyInt(0), max_year |-> PyInt(MaxYear)]

\* C3: after import and before any operation the handle is None and importr has not
\* run, the four operations and a string version are exported, and loads never
\* outnumber the operations started.
C3_LazyLoad ==
    /\ calls = 0 => (pkg = None /\ importrCalls = 0 /\ loadsOk = 0)
    /\ importrCalls <= calls
    /\ Ops \subseteq Exported
    /\ Version \in STRING
C3_Witness ==
    \E t \in Threads :
        /\ calls = 1
        /\ th[t].pkg0 = None
        /\ th[t].nimport = 1
        /\ pkg # None

\* C4 (as stated): every returned mapping has exactly the keys min_year and
\* max_year, integer values, and min_year <= max_year.
C4_YearRangeOrdered ==
    \A t \in Threads : ReturnedYears(t) =>
        /\ DOMAIN th[t].ret_yrs = {"min_year", "max_year"}
        /\ th[t].ret_yrs.min_year.t = "int"
        /\ th[t].ret_yrs.max_year.t = "int"
        /\ th[t].ret_yrs.min_year.n <= th[t].ret_yrs.max_year.n

\* C4 (amended): every returned mapping has exactly the keys min_year and max_year
\* and integer values; min_year <= max_year holds whenever the foreign result's
\* minimum does not exceed its maximum (the order is inherited, not checked).
C4_YearRangeInherited ==
    \A t \in Threads : ReturnedYears(t) =>
        /\ DOMAIN th[t].ret_yrs = {"min_year", "max_year"}
        /\ th[t].ret_yrs.min_year.t = "int"
        /\ th[t].ret_yrs.max_year.t = "int"
        /\ Half(th[t].held[1]) <= Half(th[t].held[2])
               => th[t].ret_yrs.min_year.n <= th[t].ret_yrs.max_year.n
C4_Witness ==
    \E t \in Threads :
        /\ ReturnedYears(t)
        /\ th[t].held = <<RDouble(1), RDouble(2 * MaxYear + 1)>>
        /\ th[t].ret_yrs = [min_year |-> PyInt(0), max_year |-> PyInt(MaxYear)]

\* C5 (as stated): a local failure of get_available_years surfaces only after all
\* three strategies were attempted, in order.
C5_FailsAfterAllThree ==
    \A t \in Threads : th[t].status = "decode_error" => th[t].tried = AllThree

\* C5 (amended): the strategies are selected by the result's shape, tested in the
\* order mapping, names, rx2, and a failure inside the selected strategy surfaces
\* at once: a mapping fails in the mapping lookup alone, a result with a usable
\* names list fails in the names lookup, and only a result that is neither fails
\* after all three were reached.
C5_FailsInSelectedStrategy ==
    \A t \in Threads : th[t].status = "decode_error" =>
        LET r == th[t].r_yrs
        IN  /\ r.cls = "dict" =>
                (th[t].tried = <<"mapping">> /\ th[t].err = "KeyError")
            /\ (r.cls # "dict" /\ usable_names(r) # <<>>) =>
                (th[t].tried = <<"mapping", "names">> /\ th[t].err = "ValueError")
            /\ (r.cls # "dict" /\ usable_names(r) = <<>>) =>
                (th[t].tried = AllThree
                    /\ th[t].err \in {"AttributeError", "TypeError", "IndexError"})
C5_Witness ==
    \E t \in Threads :
        /\ th[t].status = "decode_error"
        /\ th[t].tried = AllThree
        /\ th[t].err = "IndexError"

\* C6 (as stated): a call of tidy_enr leaves the package handle as it was before
\* the call, performs no load, and does not modify its input table.
C6_TidyChangesNothing ==
    \A t \in Threads : th[t].op = "tidy_enr" =>
        /\ pkg = th[t].pkg0
        /\ th[t].nimport = 0
        /\ th[t].df = th[t].df0

\* C6 (amended): tidy_enr does not modify its input table and leaves an already
\* initialized handle as it was; when the handle is uninitialized at the call, it
\* performs the one lazy load, which is its only change of adapter state.
C6_TidyOnlyLazyLoad ==
    \A t \in Threads : th[t].op = "tidy_enr" =>
        /\ th[t].df = th[t].df0
        /\ th[t].pkg0 # None => (pkg = th[t].pkg0 /\ th[t].nimport = 0)
        /\ th[t].pkg0 = None =>
               (th[t].nimport <= 1 /\ (pkg = None \/ (th[t].nimport = 1 /\ pkg = th[t].loaded)))
C6_Witness ==
    \E t \in Threads :
        /\ th[t].op = "tidy_enr"
        /\ th[t].status = "ok"
        /\ th[t].pkg0 # None
        /\ th[t].r_df = py2rpy(th[t].df0)
        /\ th[t].ret_tab.cls = "DataFrame"

\* C7: with two threads the number of successful loads is bounded only by the
\* number of threads, not by one: each thread loads at most once per operation,
\* and both can load on concurrent first use.
C7_LoadsBoundedByThreads ==
    /\ loadsOk <= Cardinality(Threads)
    /\ \A t \in Threads : th[t].nimport <= 1
C7_Witness ==
    /\ loadsOk = 2
    /\ \A t \in Threads : th[t].pkg0 = None /\ th[t].nimport = 1 /\ th[t].loaded # None

\* C8: an operation calls into the package only with an initialized handle, and
\* calls exactly one foreign function, the one of its own name.
C8_OneForeignCall ==
    \A t \in Threads :
        /\ Len(th[t].invoked) <= 1
        /\ \A i \in 1..Len(th[t].invoked) :
             th[t].invoked[i].fn = th[t].op /\ th[t].invoked[i].handle # None
        /\ th[t].pc \in {"marshal", "invoke"} => (pkg # None /\ th[t].lpkg # None)
        /\ th[t].pc \in {"check", "importr", "store", "return", "marshal", "invoke"}
               => th[t].invoked = <<>>
        /\ th[t].status = "ok" => Len(th[t].invoked) = 1
C8_Witness ==
    \E t \in Threads :
        /\ th[t].op = "fetch_enr_multi"
        /\ th[t].status = "ok"
        /\ th[t].invoked = <<[fn |-> "fetch_enr_multi", handle |-> pkg]>>

\* C9: in the three table operations a native table from the foreign call is
\* returned as it is with no conversion; any other value is converted exactly
\* once and the converted table is returned.
C9_PassThroughOrConvertOnce ==
    \A t \in Threads : (th[t].op \in TableOps /\ th[t].status = "ok") =>
        IF th[t].r_tab.cls = "DataFrame"
        THEN th[t].ret_tab = th[t].r_tab /\ th[t].nconv = 0
        ELSE /\ th[t].nconv = 1
             /\ th[t].ret_tab.cls = "DataFrame"
             /\ th[t].ret_tab.rows = th[t].r_tab.rows
             /\ th[t].ret_tab.long = th[t].r_tab.long
C9_Witness ==
    \E t \in Threads :
        /\ th[t].op = "fetch_enr"
        /\ th[t].status = "ok"
        /\ th[t].r_tab.cls = "RDataFrame"
        /\ th[t].nconv = 1

\* C10: a failed load ends the operation with no foreign call and no second load,
\* leaving the handle None, so an operation that starts with the handle None loads
\* again; a failed foreign call ends the operation after that one call with the
\* handle unchanged.
C10_FailuresPropagate ==
    \A t \in Threads :
        /\ th[t].status = "load_error" =>
               (th[t].invoked = <<>> /\ th[t].nimport = 1 /\ pkg = None /\ th[t].pc = "idle")
        /\ th[t].status = "call_error" =>
               (Len(th[t].invoked) = 1 /\ th[t].nimport <= 1 /\ pkg # None
                   /\ pkg = th[t].lpkg /\ th[t].pc = "idle"
                   /\ (th[t].pkg0 # None => pkg = th[t].pkg0))
        /\ (th[t].pkg0 = None /\ th[t].pc \in {"store", "return", "marshal", "invoke"})
               => th[t].nimport = 1
C10_Witness ==
    \E t \in Threads :
        /\ th[t].status = "call_error"
        /\ th[t].pkg0 = None
        /\ importrCalls = 2
        /\ loadsOk = 1

====
